---- MODULE Spec2Model ----
(***************************************************************************)
(* dcrlnhub: the hub's start-up (main, newLightningHub), the aggregation   *)
(* of the node's state (fetchHomePage) and the page handler (HomePage),    *)
(* with several requests served concurrently over the one shared client.   *)
(***************************************************************************)
EXTENDS Integers, Sequences, FiniteSets, TLC

(***************************************************************************)
(* Bounds of the model.                                                    *)
(***************************************************************************)
\* number of inbound requests, each served by its own goroutine
NumRequests == 2
\* longest channel list the node returns
MaxChans == 2

(***************************************************************************)
(* int64 arithmetic.  An int64 is its two's-complement bit pattern, kept   *)
(* as Int64Limbs limbs of LimbBits bits, least significant limb first.     *)
(***************************************************************************)
LimbBits == 16
Int64Limbs == 4
LimbBase == 2 ^ LimbBits

Zero64 == [i \in 1..Int64Limbs |-> 0]

RECURSIVE AddLimbs(_, _, _, _)
\* limbs i.. of a + b + carry, with as many limbs as a has (the carry out of
\* the last limb is dropped: the addition wraps)
AddLimbs(a, b, i, carry) ==
    IF i > Len(a) THEN <<>>
    ELSE LET s == a[i] + b[i] + carry
         IN  <<s % LimbBase>> \o AddLimbs(a, b, i + 1, s \div LimbBase)

\* the narrow accumulator of a 32-bit build: the sum is cut to its low 32 bits
\* and sign-extended back
Add32(a, b) ==
    LET s == AddLimbs(a, b, 1, 0)
        ext == IF s[2] >= LimbBase \div 2 THEN LimbBase - 1 ELSE 0
    IN  [i \in 1..Int64Limbs |-> IF i <= 2 THEN s[i] ELSE ext]

\* totalCapacity += channel.Capacity on int64
Add64(a, b) == AddLimbs(a, b, 1, 0)

IsNeg64(a) == a[Int64Limbs] >= LimbBase \div 2

(***************************************************************************)
(* Exact (unbounded) sums, for stating what the accumulator should hold.   *)
(* A wide number has one more limb than an int64, which holds the sum of   *)
(* any channel list of the model without loss.                             *)
(***************************************************************************)
Widen(a) == a \o <<IF IsNeg64(a) THEN LimbBase - 1 ELSE 0>>

RECURSIVE ExactSum(_)
ExactSum(chans) ==
    IF chans = <<>> THEN Widen(Zero64)
    ELSE AddLimbs(ExactSum(SubSeq(chans, 1, Len(chans) - 1)),
                  Widen(chans[Len(chans)].capacity), 1, 0)

\* the int64 holds exactly the mathematical value of the wide number
Holds(a, wide) == Widen(a) = wide

\* the wide number is representable as a non-negative int64
FitsInt64(wide) == wide[Int64Limbs + 1] = 0 /\ wide[Int64Limbs] < LimbBase \div 2

(***************************************************************************)
(* Values the model draws its inputs from.                                 *)
(***************************************************************************)
Networks == {"testnet", "mainnet"}

\* GetInfoResponse.Chains: the networks of the chain entries, in order
ChainLists == {<<>>, <<"testnet">>, <<"mainnet">>, <<"mainnet", "testnet">>}

\* Channel.Capacity values: 500000, 1500000 and the largest int64
Cap500k == <<41248, 7, 0, 0>>
Cap1500k == <<58208, 22, 0, 0>>
CapMaxInt64 == <<LimbBase - 1, LimbBase - 1, LimbBase - 1, LimbBase \div 2 - 1>>
Capacities == {Cap500k, Cap1500k, CapMaxInt64}

Channels == [capacity : Capacities]

RECURSIVE SeqsUpTo(_, _)
SeqsUpTo(S, n) ==
    IF n = 0 THEN {<<>>}
    ELSE LET shorter == SeqsUpTo(S, n - 1)
         IN  shorter \cup {Append(q, x) : q \in {t \in shorter : Len(t) = n - 1}, x \in S}

ChannelLists == SeqsUpTo(Channels, MaxChans)

\* the node's address list, channel count and confirmed balance
NodeProfiles ==
    {[uris |-> <<>>, numActiveChannels |-> 0, confirmedBalance |-> 0],
     [uris |-> <<"02ab@hub.example:9735">>, numActiveChannels |-> 2,
      confirmedBalance |-> 750000]}

Nodes ==
    {[chains |-> ch, uris |-> p.uris, numActiveChannels |-> p.numActiveChannels,
      channels |-> cl, confirmedBalance |-> p.confirmedBalance, stable |-> st] :
        ch \in ChainLists, p \in NodeProfiles, cl \in ChannelLists, st \in BOOLEAN}

\* a path is the sequence of its components
HomeDir == "/home/hub"
CertPathRaw == <<"~", ".dcrlnd", "tls.cert">>
MacaroonPathRaw == <<"$HOME", ".dcrlnd", ".", "admin.macaroon">>
CertPathClean == <<HomeDir, ".dcrlnd", "tls.cert">>
MacaroonPathClean == <<HomeDir, ".dcrlnd", "admin.macaroon">>
NoPath == <<>>

\* the configurations loadConfig hands over
Configs ==
    {[Network |-> n, TLSCertPath |-> ps[1], MacaroonPath |-> ps[2]] :
        n \in Networks,
        ps \in {<<CertPathRaw, MacaroonPathRaw>>, <<CertPathClean, MacaroonPathClean>>}}

Methods == {"GET", "POST", "PUT"}
Queries == {"GetInfo", "ListChannels", "WalletBalance"}

\* 0 is the call newLightningHub makes at start-up, the others are the calls
\* of the requests' handlers
Requests == 1..NumRequests
HubCall == 0
Callers == {HubCall} \cup Requests

\* error values (the empty string is nil)
NoErr == ""
ErrGetInfo == "rpc GetInfo() failed"
ErrNetwork == "dcrlnd and dcrlnhub are set in different networks"
ErrListChannels == "rpc ListChannels() failed"
ErrWalletBalance == "rpc WalletBalance() failed"
ErrCert == "unable to read cert file"
ErrMacRead == "macaroon: read failed"
ErrMacDecode == "macaroon: unmarshal failed"
ErrDial == "unable to dial to dcrlnd's gRPC server"

VARIABLES
    cfg,         \* *config: Network, TLSCertPath, MacaroonPath
    hasIndex,    \* whether the parsed templates include index.html
    node,        \* the dcrlnd node behind the client
    mainPc,      \* where main / newLightningHub stands
    tlsCertPath, \* newLightningHub's local
    macPath,     \* newLightningHub's local
    fileReads,   \* the paths handed to the file system so far
    hubContext,  \* lightningHub.context (nil is <<>>)
    call,        \* the fetchHomePage activations, by caller
    req,         \* the requests and their responses
    log          \* what was written to the log

vars == <<cfg, hasIndex, node, mainPc, tlsCertPath, macPath, fileReads,
          hubContext, call, req, log>>

(***************************************************************************)
(* The node.  A stable node answers every query with the same response; an *)
(* unstable one may also fail a query, or be found with no chain or on     *)
(* another network.                                                        *)
(***************************************************************************)
RestartChainLists == {ch \in ChainLists : Len(ch) <= 1}

InfoResponses ==
    LET fixed == [ok |-> TRUE, chains |-> node.chains, uris |-> node.uris,
                  numActiveChannels |-> node.numActiveChannels]
    IN  IF node.stable THEN {fixed}
        ELSE {[fixed EXCEPT !.ok = FALSE]} \cup {[fixed EXCEPT !.chains = ch] : ch \in RestartChainLists}

ChannelsResponses ==
    LET fixed == [ok |-> TRUE, channels |-> node.channels]
    IN  IF node.stable THEN {fixed} ELSE {fixed, [fixed EXCEPT !.ok = FALSE]}

BalanceResponses ==
    LET fixed == [ok |-> TRUE, confirmedBalance |-> node.confirmedBalance]
    IN  IF node.stable THEN {fixed} ELSE {fixed, [fixed EXCEPT !.ok = FALSE]}

(***************************************************************************)
(* fetchHomePage                                                           *)
(***************************************************************************)
NoCall == [pc |-> "none", activeNetwork |-> "", nodeAddr |-> "", numActive |-> 0,
           channels |-> <<>>, totalCapacity |-> Zero64, ret |-> <<>>, err |-> NoErr,
           issued |-> [q \in Queries |-> 0],
           \* history: the queries that failed and the chain list GetInfo gave
           failed |-> {}, seenChains |-> <<>>]

StartCall == [NoCall EXCEPT !.pc = "GetInfo"]

LogEntry(level, msg, detail) == [level |-> level, msg |-> msg, detail |-> detail]

Issue(c, q) == [c EXCEPT !.issued[q] = @ + 1]

\* return nil, err
ReturnErr(c, e) == [c EXCEPT !.pc = "returned", !.ret = <<>>, !.err = e]

\* nodeInfo.Chains[0].Network; the caller has checked nothing: on an empty
\* list the index panics
ActiveNetworkLast(chains) == chains[Len(chains)]

ActiveNetwork(chains) == chains[1]

ChainsIndexPanics(chains) == Len(chains) = 0

\* the retrying variant: a failed GetInfo is issued a second time
fetchGetInfoRetry(id, resp) ==
    LET c == Issue(call[id], "GetInfo")
    IN  IF ~resp.ok
          THEN IF c.issued["GetInfo"] < 2 THEN c ELSE ReturnErr(c, ErrGetInfo)
        ELSE IF ChainsIndexPanics(resp.chains) THEN [c EXCEPT !.pc = "panicked"]
        ELSE IF ActiveNetwork(resp.chains) # cfg.Network THEN ReturnErr(c, ErrNetwork)
        ELSE [c EXCEPT !.pc = "ListChannels",
                       !.activeNetwork = ActiveNetwork(resp.chains),
                       !.nodeAddr = IF Len(resp.uris) = 0 THEN "" ELSE resp.uris[1],
                       !.numActive = resp.numActiveChannels]

\* the GetInfo round trip and the code up to the next round trip
fetchGetInfo(id, resp) ==
    LET c == Issue(call[id], "GetInfo")
    IN  IF ~resp.ok THEN ReturnErr(c, ErrGetInfo)
        ELSE IF ChainsIndexPanics(resp.chains) THEN [c EXCEPT !.pc = "panicked"]
        ELSE IF ActiveNetwork(resp.chains) # cfg.Network THEN ReturnErr(c, ErrNetwork)
        ELSE [c EXCEPT !.pc = "ListChannels",
                       !.activeNetwork = ActiveNetwork(resp.chains),
                       !.nodeAddr = IF Len(resp.uris) = 0 THEN "" ELSE resp.uris[1],
                       !.numActive = resp.numActiveChannels]

\* log.Warn of the missing URI
logGetInfo(id, resp) ==
    IF fetchGetInfo(id, resp).pc = "ListChannels" /\ Len(resp.uris) = 0
    THEN {LogEntry("warn", "nodeInfo did not include a URI", "")}
    ELSE {}

RECURSIVE SumCapacity(_, _)
\* for _, channel := range channels { total += channel.Capacity }
SumCapacity(total, chans) ==
    IF chans = <<>> THEN total
    ELSE SumCapacity(Add64(total, Head(chans).capacity), Tail(chans))

\* the variant that carries on after a failed ListChannels with no channels
fetchListChannelsPartial(id, resp) ==
    LET c == Issue(call[id], "ListChannels")
    IN  IF ~resp.ok THEN [c EXCEPT !.pc = "returned", !.err = ErrListChannels,
                                   !.ret = <<[NodeAddr |-> c.nodeAddr, Network |-> c.activeNetwork,
                                              ChannelsCount |-> c.numActive, Capacity |-> Zero64,
                                              Balance |-> 0, ActiveChannels |-> <<>>]>>]
        ELSE [c EXCEPT !.pc = "WalletBalance",
                       !.channels = resp.channels,
                       !.totalCapacity = SumCapacity(Zero64, resp.channels)]

\* the variant whose accumulator is one variable shared by all calls
fetchListChannelsShared(id, resp) ==
    LET c == Issue(call[id], "ListChannels")
        others == {o \in Callers \ {id} : call[o].pc = "WalletBalance"}
        start == IF others = {} THEN Zero64
                 ELSE call[CHOOSE o \in others : TRUE].totalCapacity
    IN  IF ~resp.ok THEN ReturnErr(c, ErrListChannels)
        ELSE [c EXCEPT !.pc = "WalletBalance",
                       !.channels = resp.channels,
                       !.totalCapacity = SumCapacity(start, resp.channels)]

\* the ListChannels round trip and the code up to the next round trip
fetchListChannels(id, resp) ==
    LET c == Issue(call[id], "ListChannels")
    IN  IF ~resp.ok THEN ReturnErr(c, ErrListChannels)
        ELSE [c EXCEPT !.pc = "WalletBalance",
                       !.channels = resp.channels,
                       !.totalCapacity = SumCapacity(Zero64, resp.channels)]

\* the WalletBalance round trip and the return of the templateContext
fetchWalletBalance(id, resp) ==
    LET c == Issue(call[id], "WalletBalance")
    IN  IF ~resp.ok THEN ReturnErr(c, ErrWalletBalance)
        ELSE [c EXCEPT !.pc = "returned",
                       !.err = NoErr,
                       !.ret = <<[NodeAddr |-> c.nodeAddr,
                                  Network |-> c.activeNetwork,
                                  ChannelsCount |-> c.numActive,
                                  Capacity |-> c.totalCapacity,
                                  Balance |-> resp.confirmedBalance,
                                  ActiveChannels |-> c.channels]>>]

\* log.Warn(nodeInfo.NumActiveChannels)
logWalletBalance(id, resp) ==
    IF resp.ok THEN {LogEntry("warn", "NumActiveChannels", "")} ELSE {}

(***************************************************************************)
(* Paths                                                                   *)
(***************************************************************************)
RECURSIVE DropDots(_)
DropDots(p) ==
    IF p = <<>> THEN <<>>
    ELSE IF Head(p) = "." THEN DropDots(Tail(p))
    ELSE <<Head(p)>> \o DropDots(Tail(p))

\* expands a leading ~ or $HOME and cleans the result
cleanAndExpandPath(p) ==
    LET expanded == IF p # <<>> /\ Head(p) \in {"~", "$HOME"}
                    THEN <<HomeDir>> \o Tail(p) ELSE p
    IN  DropDots(expanded)

(***************************************************************************)
(* Initial state: loadConfig has returned and the templates are parsed.    *)
(***************************************************************************)
NoResponse == [status |-> 0, body |-> "", page |-> <<>>]

IdleRequest == [pc |-> "idle", method |-> "", handled |-> FALSE, resp |-> NoResponse]

Init ==
    /\ cfg \in Configs
    /\ hasIndex \in BOOLEAN
    /\ node \in Nodes
    \* an unstable node is set up on the hub's network and met with the
    \* default (clean) paths; what it answers differently is drawn at each query
    /\ node.stable \/ (node.chains = <<cfg.Network>> /\ cfg.TLSCertPath = CertPathClean)
    /\ mainPc = "CleanCertPath"
    /\ tlsCertPath = NoPath
    /\ macPath = NoPath
    /\ fileReads = {}
    /\ hubContext = <<>>
    /\ call = [c \in Callers |-> NoCall]
    /\ req = [r \in Requests |-> IdleRequest]
    /\ log = {}

(***************************************************************************)
(* main and newLightningHub                                                *)
(***************************************************************************)
\* main, when newLightningHub returned the error e: log and os.Exit(1)
HubFailed(e) ==
    /\ mainPc' = "Exited"
    /\ log' = log \cup {LogEntry("critical", "unable to create hub", e)}

\* the variant of main that drops the error and goes on to listen
MainAfterHubIgnoringErr(c) ==
    IF c.pc = "panicked" THEN "Crashed" ELSE "Listen"

\* where main stands once the start-up call c has ended
MainAfterHub(c) ==
    IF c.pc = "panicked" THEN "Crashed"
    ELSE IF c.err # NoErr THEN "Exited"
    ELSE "Listen"

\* the variant that opens the certificate at the path as configured
CertFileToLoadRaw == cfg.TLSCertPath

\* the path credentials.NewClientTLSFromFile is given
CertFileToLoad == tlsCertPath

\* the path ioutil.ReadFile is given
MacFileToRead == macPath

CleanCertPath ==
    /\ mainPc = "CleanCertPath"
    /\ tlsCertPath' = cleanAndExpandPath(cfg.TLSCertPath)
    /\ mainPc' = "LoadCert"
    /\ UNCHANGED <<cfg, hasIndex, node, macPath, fileReads, hubContext, call, req, log>>

LoadCert ==
    /\ mainPc = "LoadCert"
    /\ fileReads' = fileReads \cup {CertFileToLoad}
    /\ \E ok \in BOOLEAN :
         IF ok THEN mainPc' = "CleanMacPath" /\ log' = log
         ELSE HubFailed(ErrCert)
    /\ UNCHANGED <<cfg, hasIndex, node, tlsCertPath, macPath, hubContext, call, req>>

CleanMacPath ==
    /\ mainPc = "CleanMacPath"
    /\ macPath' = cleanAndExpandPath(cfg.MacaroonPath)
    /\ mainPc' = "ReadMac"
    /\ UNCHANGED <<cfg, hasIndex, node, tlsCertPath, fileReads, hubContext, call, req, log>>

ReadMac ==
    /\ mainPc = "ReadMac"
    /\ fileReads' = fileReads \cup {MacFileToRead}
    /\ \E ok \in BOOLEAN :
         IF ok THEN mainPc' = "Unmarshal" /\ log' = log
         ELSE HubFailed(ErrMacRead)
    /\ UNCHANGED <<cfg, hasIndex, node, tlsCertPath, macPath, hubContext, call, req>>

Unmarshal ==
    /\ mainPc = "Unmarshal"
    /\ \E ok \in BOOLEAN :
         IF ok THEN mainPc' = "Dial" /\ log' = log
         ELSE HubFailed(ErrMacDecode)
    /\ UNCHANGED <<cfg, hasIndex, node, tlsCertPath, macPath, fileReads, hubContext, call, req>>

\* grpc.Dial, and on success the start of the initial fetchHomePage
Dial ==
    /\ mainPc = "Dial"
    /\ \E ok \in BOOLEAN :
         IF ok THEN /\ mainPc' = "InitialFetch"
                    /\ call' = [call EXCEPT ![HubCall] = StartCall]
                    /\ log' = log
         ELSE HubFailed(ErrDial) /\ call' = call
    /\ UNCHANGED <<cfg, hasIndex, node, tlsCertPath, macPath, fileReads, hubContext, req>>

\* the rest of newLightningHub and of main, once the initial call c has ended
HubReturn(c) ==
    /\ mainPc' = MainAfterHub(c)
    /\ hubContext' = IF c.pc = "returned" /\ c.err = NoErr THEN c.ret ELSE <<>>
    /\ req' = req

\* what newLightningHub and main log when the initial call c has ended
logHubReturn(c) ==
    IF c.pc = "returned" /\ c.err # NoErr
    THEN {LogEntry("error", "%v", c.err),
          LogEntry("critical", "unable to create hub", c.err)}
    ELSE {}

\* go http.ListenAndServe
Listen ==
    /\ mainPc = "Listen"
    /\ mainPc' = "Serving"
    /\ UNCHANGED <<cfg, hasIndex, node, tlsCertPath, macPath, fileReads, hubContext,
                   call, req, log>>

(***************************************************************************)
(* HomePage                                                                *)
(***************************************************************************)
\* the methods the router hands to HomePage
RoutedMethods == {"POST", "GET"}

Respond(r, status, body, page) ==
    [r EXCEPT !.pc = "done", !.resp = [status |-> status, body |-> body, page |-> page]]

\* HomePage from the return of fetchHomePage on; a panic unwinds the handler
\* and the server drops the connection without a response
HomePageReturn(r, c) ==
    IF c.pc = "panicked" THEN [r EXCEPT !.pc = "aborted"]
    ELSE IF c.err # NoErr THEN Respond(r, 500, "unable to render home page", <<>>)
    ELSE IF r.method = "GET" THEN Respond(r, 200, "index.html", c.ret)
    ELSE Respond(r, 405, "Method not allowed!", <<>>)

logHomePageReturn(c) ==
    IF c.pc = "returned" /\ c.err # NoErr
    THEN {LogEntry("error", "unable to fetch home state", "")}
    ELSE {}

\* HomePage up to the call of fetchHomePage
BeginHomePage(r, m) ==
    IF ~hasIndex
      THEN Respond([r EXCEPT !.method = m, !.handled = TRUE], 500, "500 Internal Server Error.", <<>>)
    ELSE [r EXCEPT !.pc = "fetching", !.method = m, !.handled = TRUE]

\* a request arrives: the router rejects it or hands it to HomePage
Request(i, m) ==
    /\ mainPc = "Serving"
    /\ req[i].pc = "idle"
    /\ IF m \in RoutedMethods
       THEN LET r == BeginHomePage(req[i], m)
            IN  /\ req' = [req EXCEPT ![i] = r]
                /\ call' = [call EXCEPT ![i] = IF r.pc = "fetching" THEN StartCall ELSE @]
                /\ log' = IF r.pc = "done"
                          THEN log \cup {LogEntry("error", "unable to lookup index", "")}
                          ELSE log
       ELSE /\ req' = [req EXCEPT ![i] = Respond([@ EXCEPT !.method = m], 405, "", <<>>)]
            /\ UNCHANGED <<call, log>>
    /\ UNCHANGED <<cfg, hasIndex, node, mainPc, tlsCertPath, macPath, fileReads, hubContext>>

(***************************************************************************)
(* The round trips of fetchHomePage, for the start-up call and the         *)
(* handlers' calls alike, each followed by the caller's code when the call *)
(* has ended.                                                              *)
(***************************************************************************)
Ended(c) == c.pc \in {"returned", "panicked"}

\* records in the history fields of c the response resp to query q
Observed(c, q, resp) ==
    [c EXCEPT !.failed = IF resp.ok THEN @ ELSE @ \cup {q},
              !.seenChains = IF q = "GetInfo" /\ resp.ok THEN resp.chains ELSE @]

\* the caller id goes on after its call moved to c, which logged `entries`
Continue(id, c, entries) ==
    /\ call' = [call EXCEPT ![id] = c]
    /\ IF ~Ended(c)
       THEN /\ log' = log \cup entries
            /\ UNCHANGED <<mainPc, hubContext, req>>
       ELSE IF id = HubCall
       THEN /\ HubReturn(c)
            /\ log' = log \cup entries \cup logHubReturn(c)
       ELSE /\ req' = [req EXCEPT ![id] = HomePageReturn(@, c)]
            /\ log' = log \cup entries \cup logHomePageReturn(c)
            /\ UNCHANGED <<mainPc, hubContext>>
    /\ UNCHANGED <<cfg, hasIndex, node, tlsCertPath, macPath, fileReads>>

GetInfo(id) ==
    /\ call[id].pc = "GetInfo"
    /\ \E resp \in InfoResponses :
         Continue(id, Observed(fetchGetInfo(id, resp), "GetInfo", resp), logGetInfo(id, resp))

ListChannels(id) ==
    /\ call[id].pc = "ListChannels"
    /\ \E resp \in ChannelsResponses :
         Continue(id, Observed(fetchListChannels(id, resp), "ListChannels", resp), {})

WalletBalance(id) ==
    /\ call[id].pc = "WalletBalance"
    /\ \E resp \in BalanceResponses :
         Continue(id, Observed(fetchWalletBalance(id, resp), "WalletBalance", resp),
                  logWalletBalance(id, resp))

Next ==
    \/ CleanCertPath
    \/ LoadCert
    \/ CleanMacPath
    \/ ReadMac
    \/ Unmarshal
    \/ Dial
    \/ Listen
    \/ \E i \in Requests, m \in Methods : Request(i, m)
    \/ \E id \in Callers : GetInfo(id)
    \/ \E id \in Callers : ListChannels(id)
    \/ \E id \in Callers : WalletBalance(id)

Spec == Init /\ [][Next]_vars

(***************************************************************************)
(* Properties                                                              *)
(***************************************************************************)
InfoSucceeded(id) == call[id].issued["GetInfo"] > 0 /\ "GetInfo" \notin call[id].failed

\* C1: a call in which GetInfo, ListChannels or WalletBalance failed has
\* returned an error and a nil templateContext, and neither the hub nor a
\* response holds a snapshot from it; a returned snapshot comes from a call
\* whose three queries all succeeded.
C1_NoPartialSnapshot ==
    /\ \A id \in Callers :
         /\ call[id].failed # {} =>
              /\ call[id].pc = "returned"
              /\ call[id].err # NoErr
              /\ call[id].ret = <<>>
         /\ call[id].ret # <<>> =>
              /\ call[id].failed = {}
              /\ \A q \in Queries : call[id].issued[q] = 1
    /\ \A i \in Requests : call[i].failed # {} => req[i].resp.page = <<>>
    /\ call[HubCall].failed # {} => hubContext = <<>>

\* a call whose first two queries succeeded and whose WalletBalance failed
C1_Witness ==
    \E id \in Callers :
        /\ call[id].failed = {"WalletBalance"}
        /\ call[id].issued["ListChannels"] = 1
        /\ call[id].channels # <<>>
        /\ call[id].ret = <<>>

\* C2: when GetInfo succeeded with at least one chain entry, the call ends
\* with the network-mismatch error exactly if the first entry's network is
\* not cfg.Network; every returned snapshot has Network = cfg.Network.
C2_NetworkMismatchIff ==
    \A id \in Callers :
        /\ (InfoSucceeded(id) /\ call[id].seenChains # <<>>) =>
              ((call[id].pc = "returned" /\ call[id].err = ErrNetwork /\ call[id].ret = <<>>)
                 <=> call[id].seenChains[1] # cfg.Network)
        /\ call[id].ret # <<>> => call[id].ret[1].Network = cfg.Network

\* a node on two chains whose first one is not the hub's is refused
C2_Witness ==
    \E id \in Callers :
        /\ Len(call[id].seenChains) = 2
        /\ call[id].seenChains[1] # cfg.Network
        /\ call[id].seenChains[2] = cfg.Network
        /\ call[id].err = ErrNetwork

\* C3: when GetInfo succeeded with zero chain entries the call returns the
\* GetInfo error and no snapshot (it does not end abnormally).
C3_ZeroChainsIsInfoError ==
    \A id \in Callers :
        (InfoSucceeded(id) /\ call[id].seenChains = <<>>) =>
            /\ call[id].pc = "returned"
            /\ call[id].err = ErrGetInfo
            /\ call[id].ret = <<>>

\* C4: a request whose method is not GET issues no query to the node.
C4_NonGetIssuesNoQuery ==
    \A i \in Requests :
        (req[i].pc # "idle" /\ req[i].method # "GET") =>
            \A q \in Queries : call[i].issued[q] = 0

\* C5: the Capacity of a returned snapshot is the exact sum of the
\* capacities of its ActiveChannels, which are the node's channels in the
\* node's order, whenever that sum is a non-negative int64 (so for every
\* total up to the currency's supply); it is 0 for no channels.
C5_CapacityIsExactSum ==
    \A id \in Callers :
        call[id].ret # <<>> =>
            LET ctx == call[id].ret[1]
                exact == ExactSum(ctx.ActiveChannels)
            IN  /\ ctx.ActiveChannels = node.channels
                /\ FitsInt64(exact) => Holds(ctx.Capacity, exact)
                /\ ctx.ActiveChannels = <<>> => ctx.Capacity = Zero64

\* channels of 500000 and 1500000 give a snapshot with Capacity 2000000
C5_Witness ==
    \E id \in Callers :
        /\ call[id].ret # <<>>
        /\ call[id].ret[1].ActiveChannels = <<[capacity |-> Cap500k], [capacity |-> Cap1500k]>>
        /\ call[id].ret[1].Capacity = <<33920, 30, 0, 0>>

\* main has logged that newLightningHub failed
BuilderFailed == \E e \in log : e.level = "critical" /\ e.msg = "unable to create hub"

\* C6: the process listens, and a request is taken up, only after
\* newLightningHub has returned a hub: both files were read, the initial
\* call returned a snapshot on the configured network.  When the builder has
\* failed the process has exited and every request is untouched.
C6_ListenOnlyAfterHub ==
    /\ (mainPc \in {"Listen", "Serving"} \/ \E i \in Requests : req[i].pc # "idle") =>
          /\ ~BuilderFailed
          /\ fileReads = {tlsCertPath, macPath}
          /\ call[HubCall].pc = "returned"
          /\ call[HubCall].err = NoErr
          /\ hubContext = call[HubCall].ret
          /\ hubContext # <<>>
          /\ hubContext[1].Network = cfg.Network
    /\ (BuilderFailed \/ call[HubCall].err # NoErr \/ call[HubCall].pc = "panicked") =>
          /\ mainPc \in {"Exited", "Crashed"}
          /\ \A i \in Requests : req[i].pc = "idle"

\* a request is answered by the listening process
C6_Witness ==
    /\ mainPc = "Serving"
    /\ \E i \in Requests : req[i].resp.status = 200

\* C7: when the call fails inside the handler the response is the same 500
\* for every failure, carries nothing of the error, and the error is in the log.
C7_OpaqueResponseDetailLogged ==
    \A i \in Requests :
        (req[i].pc = "done" /\ call[i].pc = "returned" /\ call[i].err # NoErr) =>
            /\ req[i].resp = [status |-> 500, body |-> "unable to render home page", page |-> <<>>]
            /\ \E e \in log : e.detail = call[i].err

\* C8: against a node with fixed responses every call, whatever the
\* interleaving with the other calls, returns a snapshot, and that snapshot
\* is the one the start-up call, which ran alone, returned.
C8_ConcurrentCallsAgree ==
    node.stable =>
        \A a \in Requests :
            /\ call[a].pc # "panicked"
            /\ call[a].pc = "returned" =>
                  /\ call[a].ret # <<>>
                  /\ call[a].ret = hubContext
                  /\ \A b \in Requests : call[b].pc = "returned" => call[b].ret = call[a].ret

\* two requests' calls have returned snapshots with channels in them
C8_Witness ==
    /\ node.stable
    /\ \A a \in Requests :
         /\ call[a].ret # <<>>
         /\ Len(call[a].ret[1].ActiveChannels) = 2

\* C9: a call issues each query at most once; a failed query, a network
\* mismatch or the panic ends the call at once, with no query after it.
C9_SingleAttemptNoRetry ==
    \A id \in Callers :
        /\ \A q \in Queries : call[id].issued[q] <= 1
        /\ call[id].failed # {} => call[id].pc = "returned"
        /\ ("GetInfo" \in call[id].failed \/ call[id].err = ErrNetwork
              \/ call[id].pc = "panicked") =>
              call[id].issued["ListChannels"] = 0 /\ call[id].issued["WalletBalance"] = 0
        /\ "ListChannels" \in call[id].failed => call[id].issued["WalletBalance"] = 0
        /\ Cardinality(call[id].failed) <= 1

\* a call ended by a failed ListChannels: GetInfo and ListChannels went out
\* once, WalletBalance never
C9_Witness ==
    \E id \in Callers :
        /\ call[id].failed = {"ListChannels"}
        /\ call[id].issued = [q \in Queries |-> IF q = "WalletBalance" THEN 0 ELSE 1]

\* C10 as claimed: no file is read while either path is not yet normalized.
C10_BothPathsBeforeAnyRead ==
    fileReads # {} => (tlsCertPath # NoPath /\ macPath # NoPath)

\* C10 as amended: every file is read at its own normalized path, the
\* certificate at the normalized cfg.TLSCertPath and the macaroon at the
\* normalized cfg.MacaroonPath (the certificate is loaded before the
\* macaroon path is normalized).
C10_EachPathBeforeItsRead ==
    /\ tlsCertPath \in {NoPath, cleanAndExpandPath(cfg.TLSCertPath)}
    /\ macPath \in {NoPath, cleanAndExpandPath(cfg.MacaroonPath)}
    /\ fileReads \subseteq ({tlsCertPath, macPath} \ {NoPath})
    /\ mainPc \in {"CleanMacPath", "ReadMac"} => fileReads = {tlsCertPath}
    /\ mainPc \in {"Unmarshal", "Dial", "InitialFetch", "Listen", "Serving"} =>
          fileReads = {tlsCertPath, macPath}

\* the certificate has been loaded from the expanded path while the macaroon
\* path is still to be normalized
C10_Witness ==
    /\ cfg.TLSCertPath = CertPathRaw
    /\ fileReads = {CertPathClean}
    /\ macPath = NoPath

====
